---- MODULE Spec2Model ----
(***************************************************************************)
(* Model of download_laws.py: the recursive folder walk of the Moroccan    *)
(* Justice Portal downloader (get_folder_data, download_file,              *)
(* process_folder, main) over a remote folder tree and a local file        *)
(* system, with every request attempt free to fail.                        *)
(*                                                                         *)
(* Strings are sequences of one-character strings; a local path is a       *)
(* sequence of path segments.                                              *)
(***************************************************************************)
EXTENDS Integers, Sequences, FiniteSets, TLC

----------------------------------------------------------------------------
(* Configuration (download_laws.py lines 24-43)                            *)

MAX_RETRIES == 3

MaxNameLen == 200

ROOT_FOLDER_IDS == <<12, 569>>

OUTPUT_DIR == << <<"l","a","w","s">> >>

(* Model bounds: how many times the program is run in a row, and the      *)
(* number of chunks in the body of every remote file.                      *)
MaxRuns == 2

NumChunks == 2

(* Model bound: the longest run of freely chosen characters at either end  *)
(* of an argument of sanitize_filename.                                    *)
MaxAffix == 2

----------------------------------------------------------------------------
(* Strings                                                                 *)

Ascii ==
  << " ", "!", "\"", "#", "$", "%", "&", "'", "(", ")", "*", "+", ",", "-", ".", "/",
     "0", "1", "2", "3", "4", "5", "6", "7", "8", "9", ":", ";", "<", "=", ">", "?",
     "@", "A", "B", "C", "D", "E", "F", "G", "H", "I", "J", "K", "L", "M", "N", "O",
     "P", "Q", "R", "S", "T", "U", "V", "W", "X", "Y", "Z", "[", "\\", "]", "^", "_",
     "GRAVE", "a", "b", "c", "d", "e", "f", "g", "h", "i", "j", "k", "l", "m", "n", "o",
     "p", "q", "r", "s", "t", "u", "v", "w", "x", "y", "z", "{", "|", "}", "~" >>

(* chr(n) for the printable ASCII range; any other code point is shown as  *)
(* the one symbol "NONASCII".                                              *)
Chr(n) == IF n \in 32..126 THEN Ascii[n - 31] ELSE "NONASCII"

Ord(c) == IF \E i \in 1..Len(Ascii) : Ascii[i] = c
          THEN 31 + CHOOSE i \in 1..Len(Ascii) : Ascii[i] = c
          ELSE 0

(* str.lower(), character by character *)
LowerChar(c) == IF Ord(c) \in 65..90 THEN Chr(Ord(c) + 32) ELSE c

Lower(s) == [i \in 1..Len(s) |-> LowerChar(s[i])]

(* str.endswith *)
EndsWith(s, suffix) ==
  /\ Len(s) >= Len(suffix)
  /\ SubSeq(s, Len(s) - Len(suffix) + 1, Len(s)) = suffix

(* str(n) for n >= 0, as used by the f-strings *)
RECURSIVE IntToStr(_)
IntToStr(n) == IF n < 10 THEN << Chr(48 + n) >>
               ELSE IntToStr(n \div 10) \o << Chr(48 + (n % 10)) >>

(* the last element of s.split on the slash *)
LastSegment(s) ==
  LET slashes == {i \in 1..Len(s) : s[i] = "/"}
      last == IF slashes = {} THEN 0
              ELSE CHOOSE i \in slashes : \A j \in slashes : j <= i
  IN SubSeq(s, last + 1, Len(s))

HexDigits == {Chr(n) : n \in (48..57) \cup (65..70) \cup (97..102)}

HexVal(c) == IF Ord(c) \in 48..57 THEN Ord(c) - 48
             ELSE IF Ord(c) \in 65..70 THEN Ord(c) - 55
             ELSE Ord(c) - 87

(* urllib.parse.unquote: every %XX escape is replaced by the character it  *)
(* encodes; anything else is kept.                                         *)
RECURSIVE unquote(_)
unquote(s) ==
  IF s = << >> THEN << >>
  ELSE IF Len(s) >= 3 /\ s[1] = "%" /\ s[2] \in HexDigits /\ s[3] \in HexDigits
       THEN << Chr(16 * HexVal(s[2]) + HexVal(s[3])) >> \o unquote(SubSeq(s, 4, Len(s)))
       ELSE << s[1] >> \o unquote(Tail(s))

----------------------------------------------------------------------------
(* sanitize_filename (lines 46-59)                                         *)

(* a character class that misses the backslash *)
invalid_chars_NoBackslash == {"<", ">", ":", "\"", "/", "|", "?", "*"}

(* line 52 *)
invalid_chars == {"<", ">", ":", "\"", "/", "\\", "|", "?", "*"}

(* re.sub of invalid_chars by the underscore *)
ReSub(name) == [i \in 1..Len(name) |-> IF name[i] \in invalid_chars THEN "_" ELSE name[i]]

(* str.strip of dots and spaces *)
Strip(s) ==
  LET keep == {i \in 1..Len(s) : s[i] \notin {".", " "}}
  IN IF keep = {} THEN << >>
     ELSE SubSeq(s, CHOOSE i \in keep : \A j \in keep : i <= j,
                    CHOOSE i \in keep : \A j \in keep : j <= i)

(* if len(sanitized) > 200: sanitized = sanitized[:200] *)
Truncate(s) == IF Len(s) > MaxNameLen THEN SubSeq(s, 1, MaxNameLen) ELSE s

Unnamed == <<"u","n","n","a","m","e","d">>

sanitize_filename(name) ==
  LET sanitized == Truncate(Strip(ReSub(name)))
  IN IF sanitized # << >> THEN sanitized ELSE Unnamed

----------------------------------------------------------------------------
(* String literals of the program and of the remote trees                  *)

PDF == <<".","p","d","f">>

S_resources_ == <<"r","e","s","o","u","r","c","e","s","_">>

S_folder_ == <<"f","o","l","d","e","r","_">>

S_Laws == <<"L","a","w","s">>

S_CivilCode == <<"C","i","v","i","l"," ","C","o","d","e">>

S_LawA == <<"L","a","w"," ","A",".","p","d","f">>

S_doc_a == <<"d","o","c","/","a",".","p","d","f">>

S_doc_bc == <<"d","o","c","/","b","%","2","E","c">>

S_doc_e == <<"d","o","c","/","e",".","P","D","F">>

S_EPDF == <<"E",".","P","D","F">>

S_x == <<"x">>

S_noid == <<"n","o","i","d">>

S_five == <<"f","i","v","e">>

S_f == <<"f">>

S_doc_f == <<"d","o","c","/","f">>

S_L == <<"L">>

S_a == <<"a">>

S_apdf == <<"a",".","p","d","f">>

S_g == <<"g">>

S_p1 == <<"p","/","1">>

S_p2 == <<"p","/","2">>

S_p3 == <<"p","/","3">>

S_p4 == <<"p","/","4">>

S_p5 == <<"p","/","5">>

S_p6 == <<"p","/","6">>

S_p7 == <<"p","/","7">>

S_xlt == <<"x","<">>

S_xgt == <<"x",">">>

S_dots == <<".",".">>

S_q_ == <<"q","/">>

S_r_ == <<"r","/">>

S_q_long == <<"q","/","l","o","n","g">>

S_q_z == <<"q","/","z">>

S_q_t == <<"q","/","t">>

S_pdf == <<"p","d","f">>

S_zdot == <<"z","."," ">>

(* A name one character longer than the length limit, and one whose        *)
(* character at the limit is a space.                                      *)
S_long == [i \in 1..(MaxNameLen + 1) |-> "a"]

S_longsp == [i \in 1..(MaxNameLen + 1) |-> IF i = MaxNameLen THEN " " ELSE "a"]

----------------------------------------------------------------------------
(* The remote service (section 6 of the API: GET /api/folders/{id}).  A    *)
(* tree maps a folder id to the JSON object the service returns for it;    *)
(* absent keys are absent record fields.                                   *)

(* The scenario of the documentation, with entries that lack name, path    *)
(* or id.                                                                  *)
TreeDefaults ==
  (12  :> [name |-> S_Laws, files |-> << >>,
           folders |-> << [id |-> 99, name |-> S_CivilCode] >>]) @@
  (99  :> [name |-> S_CivilCode,
           files |-> << [path |-> S_doc_a, name |-> S_LawA] >>,
           folders |-> << >>]) @@
  (569 :> [files |-> << [path |-> S_doc_bc],
                        [path |-> << >>, name |-> S_x],
                        [path |-> S_doc_e, name |-> S_EPDF] >>,
           folders |-> << [name |-> S_noid], [id |-> 5] >>]) @@
  (5   :> [name |-> S_five, files |-> << [path |-> S_doc_f, name |-> S_f] >>])

(* Names that sanitize to the same segment: two file entries of one        *)
(* folder, two sibling subfolders, two roots, and a file entry whose       *)
(* local path is a directory made earlier.                                 *)
TreeCollide ==
  (12  :> [name |-> S_L,
           files |-> << [path |-> S_p1, name |-> S_a], [path |-> S_p2, name |-> S_apdf] >>,
           folders |-> << [id |-> 7, name |-> S_xlt], [id |-> 8, name |-> S_xgt],
                          [id |-> 9, name |-> S_pdf] >>]) @@
  (7   :> [name |-> S_xlt, files |-> << [path |-> S_p3, name |-> S_f] >>]) @@
  (8   :> [name |-> S_xgt, files |-> << [path |-> S_p4, name |-> S_f],
                                        [path |-> S_p5, name |-> S_g] >>]) @@
  (9   :> [name |-> S_pdf]) @@
  (569 :> [name |-> S_L, files |-> << [path |-> S_p6, name |-> S_a],
                                      [path |-> S_p7, name |-> PDF] >>])

(* Names at the edges of the sanitizer, and a file and a subfolder that    *)
(* share a local path.                                                     *)
TreeEdges ==
  (12  :> [name |-> S_dots,
           files |-> << [path |-> S_q_, name |-> << >>],
                        [path |-> S_q_long, name |-> S_long] >>,
           folders |-> << [id |-> 7, name |-> S_pdf] >>]) @@
  (7   :> [name |-> S_pdf, files |-> << [path |-> S_q_z, name |-> S_zdot] >>]) @@
  (569 :> [name |-> << >>,
           files |-> << [path |-> S_r_], [path |-> S_q_t, name |-> S_longsp] >>])

(* A folder below a subfolder, with a sibling of that subfolder after it. *)
TreeDeep ==
  (12  :> [name |-> S_L,
           folders |-> << [id |-> 3, name |-> S_a], [id |-> 4, name |-> S_g] >>]) @@
  (3   :> [name |-> S_a, files |-> << [path |-> S_p1, name |-> S_f] >>,
           folders |-> << [id |-> 6, name |-> S_x] >>]) @@
  (6   :> [name |-> S_x, files |-> << [path |-> S_p2, name |-> S_f] >>]) @@
  (4   :> [name |-> S_g, files |-> << [path |-> S_p3, name |-> S_f] >>]) @@
  (569 :> [name |-> S_g])

TreeNames == {"defaults", "collide", "edges", "deep"}

TreeOf(t) == CASE t = "defaults" -> TreeDefaults
               [] t = "collide"  -> TreeCollide
               [] t = "edges"    -> TreeEdges
               [] t = "deep"     -> TreeDeep

(* dict.get(key, default) *)
Get(d, key, default) == IF key \in DOMAIN d THEN d[key] ELSE default

----------------------------------------------------------------------------
(* State                                                                   *)

VARIABLES
  tree,              \* which remote tree the service holds (never changes)
  run,               \* number of the current run of the program
  pc,                \* where the single thread of control is
  ri,                \* main: index of root_id in ROOT_FOLDER_IDS
  stack,             \* the active process_folder calls, outermost first
  attempt,           \* loop variable of the retry loop in progress
  ret,               \* value returned by get_folder_data / download_file
  result,            \* pair returned by process_folder
  dirs,              \* local file system: the directories
  files,             \* local file system: path -> body of the regular file
  total_downloaded,
  total_failed,
  trace,             \* history: the requests and sleeps of the call in progress
  wrote,             \* history: an attempt of the call in progress failed after
                     \* writing part of the body
  log,               \* history: what the current run did, in order
  prev,              \* history: the previous run's end state
  san                \* a call of sanitize_filename on its own: argument and result

vars == << tree, run, pc, ri, stack, attempt, ret, result, dirs, files,
           total_downloaded, total_failed, trace, wrote, log, prev, san >>

remote == TreeOf(tree)

Top == stack[Len(stack)]

----------------------------------------------------------------------------
(* The local file system as pathlib and open() see it                      *)

(* an existence check that sees directories only *)
Exists_DirsOnly(p) == p \in dirs

(* an existence check that never finds anything *)
Exists_Never(p) == FALSE

(* Path.exists() *)
Exists(p) == p \in dirs \/ p \in DOMAIN files

Ancestors(p) == {SubSeq(p, 1, k) : k \in 1..Len(p)}

Parent(p) == SubSeq(p, 1, Len(p) - 1)

(* Path.mkdir(parents=True, exist_ok=True) raises when the path or one of  *)
(* its parents is a regular file.                                          *)
MkdirRaises(p) == \E q \in Ancestors(p) : q \in DOMAIN files

Mkdir(p) == dirs \cup Ancestors(p)

Put(f, p, v) == [q \in DOMAIN f \cup {p} |-> IF q = p THEN v ELSE f[q]]

Remove(f, p) == [q \in DOMAIN f \ {p} |-> f[q]]

(* open(save_path, 'wb') creates or truncates the file; it raises on a     *)
(* directory.                                                              *)
OpenRaises(p) == p \in dirs \/ Parent(p) \notin dirs

Body(file_path, n) == [src |-> file_path, chunks |-> n]

Complete(p) == p \in DOMAIN files /\ files[p].chunks = NumChunks

----------------------------------------------------------------------------
(* History                                                                 *)

Event(op, id, n) == [op |-> op, id |-> id, n |-> n]

Logged(op) == {i \in 1..Len(log) : log[i].op = op}

Count(seq, x) == Cardinality({i \in 1..Len(seq) : seq[i] = x})

----------------------------------------------------------------------------
(* The retry loops (lines 69-79 and 90-110)                                *)

(* a loop that stops one iteration early *)
InRange_OneShort(a) == a < MAX_RETRIES - 1

(* for attempt in range(MAX_RETRIES): is there an iteration for a? *)
InRange(a) == a < MAX_RETRIES

(* a wait after every failed attempt, the last one too *)
SleepsAfter_Always(a) == TRUE

(* if attempt < MAX_RETRIES - 1: time.sleep(RETRY_DELAY) *)
SleepsAfter(a) == a < MAX_RETRIES - 1

AfterFailure(tr, a) == IF SleepsAfter(a) THEN Append(tr, "sleep") ELSE tr

----------------------------------------------------------------------------
(* get_folder_data (lines 62-79)                                           *)

(* The folder whose metadata is being fetched: main fetches the root it    *)
(* is at, process_folder the folder of the innermost call.                 *)
fetch_id == IF stack = << >> THEN ROOT_FOLDER_IDS[ri] ELSE Top.folder_id

(* requests.get, raise_for_status and json all succeed: return the data *)
GfdRequestOk ==
  /\ pc = "gfd_try"
  /\ trace' = Append(trace, "request")
  /\ ret' = "data"
  /\ pc' = "gfd_done"
  /\ UNCHANGED << san, wrote, tree, run, ri, stack, attempt, result, dirs, files,
                  total_downloaded, total_failed, log, prev >>

(* the attempt raises requests.RequestException *)
GfdRequestFail ==
  /\ pc = "gfd_try"
  /\ trace' = Append(trace, "request")
  /\ pc' = "gfd_except"
  /\ UNCHANGED << san, wrote, tree, run, ri, stack, attempt, ret, result, dirs, files,
                  total_downloaded, total_failed, log, prev >>

(* the except clause, then the next iteration or return None *)
GfdExcept ==
  /\ pc = "gfd_except"
  /\ trace' = AfterFailure(trace, attempt)
  /\ attempt' = attempt + 1
  /\ IF InRange(attempt + 1)
     THEN pc' = "gfd_try" /\ ret' = ret
     ELSE pc' = "gfd_done" /\ ret' = "None"
  /\ UNCHANGED << san, wrote, tree, run, ri, stack, result, dirs, files,
                  total_downloaded, total_failed, log, prev >>

----------------------------------------------------------------------------
(* process_folder: the names it computes (lines 133-151, 171-181)          *)

FilesOf(id) == Get(remote[id], "files", << >>)

FoldersOf(id) == Get(remote[id], "folders", << >>)

file_path_of(file_info) == Get(file_info, "path", << >>)

(* lines 136-147: the given name, else the URL-decoded last path segment, *)
(* with .pdf appended unless the lower-cased name ends with it            *)
EnsurePdf(file_name) ==
  IF EndsWith(Lower(file_name), PDF) THEN file_name ELSE file_name \o PDF

file_name_of(file_info) ==
  LET given == Get(file_info, "name", << >>)
      file_name == IF given = << >> THEN unquote(LastSegment(file_path_of(file_info)))
                   ELSE given
  IN EnsurePdf(file_name)

safe_name_of(file_info) == sanitize_filename(file_name_of(file_info))

save_path_of(current_path, file_info) == Append(current_path, safe_name_of(file_info))

subfolder_name_of(subfolder) ==
  Get(subfolder, "name", S_folder_ \o IntToStr(subfolder.id))

(* a directory name made unique by the id of the subfolder *)
subfolder_path_of_Unique(current_path, subfolder) ==
  Append(current_path, sanitize_filename(subfolder_name_of(subfolder))
                          \o <<"_">> \o IntToStr(subfolder.id))

subfolder_path_of(current_path, subfolder) ==
  Append(current_path, sanitize_filename(subfolder_name_of(subfolder)))

(* a root directory named by the id instead of the display name *)
root_path_of_ById(root_id) == Append(OUTPUT_DIR, IntToStr(root_id))

(* lines 218-220 *)
root_path_of(root_id) ==
  Append(OUTPUT_DIR,
         sanitize_filename(Get(remote[root_id], "name", S_resources_ \o IntToStr(root_id))))

(* the file entry and the subfolder entry the innermost call is at *)
file_info == FilesOf(Top.folder_id)[Top.fi]

file_path == file_path_of(file_info)

save_path == save_path_of(Top.current_path, file_info)

(* a folder loop that takes the subfolder entries from the last to the  *)
(* first                                                                *)
subfolder_Reversed ==
  FoldersOf(Top.folder_id)[Len(FoldersOf(Top.folder_id)) + 1 - Top.si]

subfolder == FoldersOf(Top.folder_id)[Top.si]

(* a call that is handed the output root instead of its own directory *)
Frame_Flat(id, path) ==
  [folder_id |-> id, current_path |-> OUTPUT_DIR, fi |-> 0, si |-> 0,
   downloaded |-> 0, failed |-> 0]

(* line 113 and lines 119-120: the parameters and counters of a call *)
Frame(id, path) ==
  [folder_id |-> id, current_path |-> path, fi |-> 0, si |-> 0,
   downloaded |-> 0, failed |-> 0]

SetTop(fr) == [stack EXCEPT ![Len(stack)] = fr]

Pop == SubSeq(stack, 1, Len(stack) - 1)

----------------------------------------------------------------------------
(* download_file (lines 82-110), called on file_path and save_path         *)

(* requests.get or raise_for_status raises before the file is opened *)
DlRequestFail ==
  /\ pc = "dl_try"
  /\ trace' = Append(trace, "request")
  /\ pc' = "dl_except"
  /\ UNCHANGED << san, wrote, tree, run, ri, stack, attempt, ret, result, dirs, files,
                  total_downloaded, total_failed, log, prev >>

(* the response arrives and open(save_path, 'wb') creates the empty file; *)
(* an OSError of open is not caught                                        *)
DlRequestOk ==
  /\ pc = "dl_try"
  /\ trace' = Append(trace, "request")
  /\ IF OpenRaises(save_path)
     THEN pc' = "crashed" /\ files' = files
     ELSE pc' = "dl_stream" /\ files' = Put(files, save_path, Body(file_path, 0))
  /\ UNCHANGED << san, wrote, tree, run, ri, stack, attempt, ret, result, dirs,
                  total_downloaded, total_failed, log, prev >>

(* a download_file without the return True of line 99: after a full     *)
(* write the loop goes on to its next iteration                         *)
DlStreamOk_NoReturn ==
  /\ pc = "dl_stream"
  /\ files' = Put(files, save_path, Body(file_path, NumChunks))
  /\ attempt' = attempt + 1
  /\ IF InRange(attempt + 1)
     THEN pc' = "dl_try" /\ ret' = ret
     ELSE pc' = "dl_done" /\ ret' = "False"
  /\ UNCHANGED << san, wrote, tree, run, ri, stack, result, dirs,
                  total_downloaded, total_failed, trace, log, prev >>

(* every chunk is written, the file is closed: return True *)
DlStreamOk ==
  /\ pc = "dl_stream"
  /\ files' = Put(files, save_path, Body(file_path, NumChunks))
  /\ ret' = "True"
  /\ pc' = "dl_done"
  /\ UNCHANGED << san, wrote, tree, run, ri, stack, attempt, result, dirs,
                  total_downloaded, total_failed, trace, log, prev >>

(* iter_content raises after n chunks were written; the with block closes *)
(* the file and leaves it on disk                                          *)
DlStreamFail ==
  /\ pc = "dl_stream"
  /\ \E n \in 0..(NumChunks - 1) :
       /\ files' = Put(files, save_path, Body(file_path, n))
       /\ wrote' = (wrote \/ n > 0)
  /\ pc' = "dl_except"
  /\ UNCHANGED << san, tree, run, ri, stack, attempt, ret, result, dirs,
                  total_downloaded, total_failed, trace, log, prev >>

(* an except clause that removes the file only while it is still empty *)
CleanUp_OnlyEmpty(fl, p) == IF p \in DOMAIN fl /\ fl[p].chunks = 0 THEN Remove(fl, p) ELSE fl

(* an except clause that leaves the partial file in place *)
CleanUp_Keep(fl, p) == fl

(* lines 106-108: if save_path.exists(): save_path.unlink() *)
CleanUp(fl, p) == IF p \in DOMAIN fl THEN Remove(fl, p) ELSE fl

(* the except clause (sleep, clean up), then the next iteration or        *)
(* return False; unlink of a directory raises                              *)
DlExcept ==
  /\ pc = "dl_except"
  /\ attempt' = attempt + 1
  /\ IF save_path \in dirs
     THEN /\ pc' = "crashed"
          /\ UNCHANGED << files, ret >>
          /\ trace' = AfterFailure(trace, attempt)
     ELSE /\ files' = CleanUp(files, save_path)
          /\ trace' = AfterFailure(trace, attempt)
          /\ IF InRange(attempt + 1)
             THEN pc' = "dl_try" /\ ret' = ret
             ELSE pc' = "dl_done" /\ ret' = "False"
  /\ UNCHANGED << san, wrote, tree, run, ri, stack, result, dirs,
                  total_downloaded, total_failed, log, prev >>

----------------------------------------------------------------------------
(* process_folder (lines 113-189)                                          *)

(* a failed fetch that unwinds every active call *)
StackAfterNoData_Unwind == << >>

(* lines 124-126: return 0, 0 ends this call alone *)
StackAfterNoData == Pop

(* lines 123-130: get_folder_data returned to process_folder *)
PfFetched ==
  /\ pc = "gfd_done"
  /\ stack # << >>
  /\ IF ret = "None"
     THEN /\ stack' = StackAfterNoData
          /\ result' = << 0, 0 >>
          /\ pc' = "pf_done"
          /\ log' = Append(log, Event("nodata", Top.folder_id, 0))
     ELSE /\ stack' = SetTop([Top EXCEPT !.fi = 1])
          /\ result' = result
          /\ pc' = "pf_files"
          /\ log' = Append(log, Event("data", Top.folder_id, 0))
  /\ ret' = "-"
  /\ attempt' = 0
  /\ trace' = << >>
  /\ wrote' = FALSE
  /\ UNCHANGED << san, tree, run, ri, dirs, files, total_downloaded, total_failed, prev >>

AtFile == pc = "pf_files" /\ Top.fi <= Len(FilesOf(Top.folder_id))

(* lines 138-139: if not file_path: continue *)
PfFileNoPath ==
  /\ AtFile
  /\ file_path = << >>
  /\ stack' = SetTop([Top EXCEPT !.fi = @ + 1])
  /\ log' = Append(log, Event("nopath", Top.folder_id, Top.fi))
  /\ UNCHANGED << san, wrote, tree, run, pc, ri, attempt, ret, result, dirs, files,
                  total_downloaded, total_failed, trace, prev >>

(* a skip that forgets to count the file *)
Skipped_NoCount(fr) == [fr EXCEPT !.fi = @ + 1]

(* lines 156-157: downloaded += 1; continue *)
Skipped(fr) == [fr EXCEPT !.fi = @ + 1, !.downloaded = @ + 1]

(* lines 153-157: skip if already exists *)
PfFileExists ==
  /\ AtFile
  /\ file_path # << >>
  /\ Exists(save_path)
  /\ stack' = SetTop(Skipped(Top))
  /\ log' = Append(log, Event("exists", Top.folder_id, Top.fi))
  /\ UNCHANGED << san, wrote, tree, run, pc, ri, attempt, ret, result, dirs, files,
                  total_downloaded, total_failed, trace, prev >>

(* lines 159-161: call download_file(file_path, save_path) *)
PfFileDownload ==
  /\ AtFile
  /\ file_path # << >>
  /\ ~ Exists(save_path)
  /\ pc' = "dl_try"
  /\ attempt' = 0
  /\ trace' = << >>
  /\ wrote' = FALSE
  /\ log' = Append(log, Event("download", Top.folder_id, Top.fi))
  /\ UNCHANGED << san, tree, run, ri, stack, ret, result, dirs, files,
                  total_downloaded, total_failed, prev >>

(* a failed download that leaves the file loop *)
Counted_BreakOnFailure(fr, ok) ==
  IF ok THEN [fr EXCEPT !.fi = @ + 1, !.downloaded = @ + 1]
  ELSE [fr EXCEPT !.fi = Len(Get(TreeOf(tree)[fr.folder_id], "files", << >>)) + 1,
                  !.failed = @ + 1]

(* lines 161-166, and the loop going on to the next file entry *)
Counted(fr, ok) == IF ok THEN [fr EXCEPT !.fi = @ + 1, !.downloaded = @ + 1]
                   ELSE [fr EXCEPT !.fi = @ + 1, !.failed = @ + 1]

(* lines 161-168: download_file returned; count, sleep DOWNLOAD_DELAY,    *)
(* go on with the next file entry                                          *)
PfDownloaded ==
  /\ pc = "dl_done"
  /\ stack' = SetTop(Counted(Top, ret = "True"))
  /\ log' = Append(log, Event(IF ret = "True" THEN "saved" ELSE "failed",
                              Top.folder_id, Top.fi))
  /\ pc' = "pf_files"
  /\ ret' = "-"
  /\ attempt' = 0
  /\ trace' = << >>
  /\ wrote' = FALSE
  /\ UNCHANGED << san, tree, run, ri, result, dirs, files,
                  total_downloaded, total_failed, prev >>

(* the file loop is over: lines 170-172 *)
PfFilesEnd ==
  /\ pc = "pf_files"
  /\ Top.fi > Len(FilesOf(Top.folder_id))
  /\ stack' = SetTop([Top EXCEPT !.si = 1])
  /\ pc' = "pf_folders"
  /\ UNCHANGED << san, wrote, tree, run, ri, attempt, ret, result, dirs, files,
                  total_downloaded, total_failed, trace, log, prev >>

AtSubfolder == pc = "pf_folders" /\ Top.si <= Len(FoldersOf(Top.folder_id))

(* lines 176-177: if subfolder_id is None: continue *)
PfSubfolderNoId ==
  /\ AtSubfolder
  /\ "id" \notin DOMAIN subfolder
  /\ stack' = SetTop([Top EXCEPT !.si = @ + 1])
  /\ log' = Append(log, Event("noid", Top.folder_id, Top.si))
  /\ UNCHANGED << san, wrote, tree, run, pc, ri, attempt, ret, result, dirs, files,
                  total_downloaded, total_failed, trace, prev >>

(* lines 179-185: create the directory, call process_folder on it, which  *)
(* starts with get_folder_data                                             *)
PfSubfolder ==
  /\ AtSubfolder
  /\ "id" \in DOMAIN subfolder
  /\ ~ MkdirRaises(subfolder_path_of(Top.current_path, subfolder))
  /\ dirs' = Mkdir(subfolder_path_of(Top.current_path, subfolder))
  /\ stack' = Append(stack, Frame(subfolder.id, subfolder_path_of(Top.current_path, subfolder)))
  /\ pc' = "gfd_try"
  /\ attempt' = 0
  /\ trace' = << >>
  /\ wrote' = FALSE
  /\ log' = Append(log, Event("mkdir", subfolder.id, Top.si))
  /\ UNCHANGED << san, tree, run, ri, ret, result, files,
                  total_downloaded, total_failed, prev >>

(* line 182 raises FileExistsError: a regular file is in the way; nothing *)
(* catches it                                                              *)
PfSubfolderRaises ==
  /\ AtSubfolder
  /\ "id" \in DOMAIN subfolder
  /\ MkdirRaises(subfolder_path_of(Top.current_path, subfolder))
  /\ pc' = "crashed"
  /\ UNCHANGED << san, wrote, tree, run, ri, stack, attempt, ret, result, dirs, files,
                  total_downloaded, total_failed, trace, log, prev >>

(* line 189: return downloaded, failed *)
PfReturn ==
  /\ pc = "pf_folders"
  /\ Top.si > Len(FoldersOf(Top.folder_id))
  /\ result' = << Top.downloaded, Top.failed >>
  /\ stack' = Pop
  /\ pc' = "pf_done"
  /\ log' = Append(log, Event("return", Top.folder_id, 0))
  /\ UNCHANGED << san, wrote, tree, run, ri, attempt, ret, dirs, files,
                  total_downloaded, total_failed, trace, prev >>

(* a caller that takes the counts of the subfolder in place of its own *)
PfAccumulate_Overwrite ==
  /\ pc = "pf_done"
  /\ stack # << >>
  /\ stack' = SetTop([Top EXCEPT !.si = @ + 1,
                                 !.downloaded = result[1],
                                 !.failed = result[2]])
  /\ result' = << 0, 0 >>
  /\ pc' = "pf_folders"
  /\ UNCHANGED << san, wrote, tree, run, ri, attempt, ret, dirs, files,
                  total_downloaded, total_failed, trace, log, prev >>

(* lines 185-187: the recursive call returned to process_folder *)
PfAccumulate ==
  /\ pc = "pf_done"
  /\ stack # << >>
  /\ stack' = SetTop([Top EXCEPT !.si = @ + 1,
                                 !.downloaded = @ + result[1],
                                 !.failed = @ + result[2]])
  /\ result' = << 0, 0 >>
  /\ pc' = "pf_folders"
  /\ UNCHANGED << san, wrote, tree, run, ri, attempt, ret, dirs, files,
                  total_downloaded, total_failed, trace, log, prev >>

----------------------------------------------------------------------------
(* main (lines 192-235)                                                    *)

(* lines 200-204: create the output directory, zero the totals *)
MainStart ==
  /\ pc = "main_init"
  /\ dirs' = Mkdir(OUTPUT_DIR)
  /\ total_downloaded' = 0
  /\ total_failed' = 0
  /\ ri' = 1
  /\ pc' = "main_loop"
  /\ UNCHANGED << san, wrote, tree, run, stack, attempt, ret, result, files, trace, log, prev >>

(* lines 207-213: the next root_id; call get_folder_data(root_id) *)
MainNextRoot ==
  /\ pc = "main_loop"
  /\ ri <= Len(ROOT_FOLDER_IDS)
  /\ pc' = "gfd_try"
  /\ attempt' = 0
  /\ trace' = << >>
  /\ wrote' = FALSE
  /\ UNCHANGED << san, tree, run, ri, stack, ret, result, dirs, files,
                  total_downloaded, total_failed, log, prev >>

(* a failed root fetch that leaves the loop over the roots *)
AfterRootFailure_Break(i) == Len(ROOT_FOLDER_IDS) + 1

(* line 216: continue with the next root_id *)
AfterRootFailure(i) == i + 1

(* lines 214-216: root_data is None: continue *)
MainRootFailed ==
  /\ pc = "gfd_done"
  /\ stack = << >>
  /\ ret = "None"
  /\ ri' = AfterRootFailure(ri)
  /\ pc' = "main_loop"
  /\ ret' = "-"
  /\ attempt' = 0
  /\ trace' = << >>
  /\ wrote' = FALSE
  /\ log' = Append(log, Event("root_fail", ROOT_FOLDER_IDS[ri], 0))
  /\ UNCHANGED << san, tree, run, stack, result, dirs, files,
                  total_downloaded, total_failed, prev >>

(* lines 218-224: create the root directory and call process_folder on    *)
(* it, which starts with get_folder_data                                   *)
MainRootFetched ==
  /\ pc = "gfd_done"
  /\ stack = << >>
  /\ ret # "None"
  /\ IF MkdirRaises(root_path_of(ROOT_FOLDER_IDS[ri]))
     THEN /\ pc' = "crashed"
          /\ UNCHANGED << dirs, stack, log >>
     ELSE /\ pc' = "gfd_try"
          /\ dirs' = Mkdir(root_path_of(ROOT_FOLDER_IDS[ri]))
          /\ stack' = << Frame(ROOT_FOLDER_IDS[ri], root_path_of(ROOT_FOLDER_IDS[ri])) >>
          /\ log' = Append(log, Event("root_ok", ROOT_FOLDER_IDS[ri], 0))
  /\ ret' = "-"
  /\ attempt' = 0
  /\ trace' = << >>
  /\ wrote' = FALSE
  /\ UNCHANGED << san, tree, run, ri, result, files, total_downloaded, total_failed, prev >>

(* lines 224-226: process_folder returned to main *)
MainAccumulate ==
  /\ pc = "pf_done"
  /\ stack = << >>
  /\ total_downloaded' = total_downloaded + result[1]
  /\ total_failed' = total_failed + result[2]
  /\ result' = << 0, 0 >>
  /\ ri' = ri + 1
  /\ pc' = "main_loop"
  /\ UNCHANGED << san, wrote, tree, run, stack, attempt, ret, dirs, files, trace, log, prev >>

(* lines 228-235: the loop is over; print the summary and exit *)
MainSummary ==
  /\ pc = "main_loop"
  /\ ri > Len(ROOT_FOLDER_IDS)
  /\ pc' = "done"
  /\ UNCHANGED << san, wrote, tree, run, ri, stack, attempt, ret, result, dirs, files,
                  total_downloaded, total_failed, trace, log, prev >>

----------------------------------------------------------------------------
(* Running the program again on the directory the last run left (line     *)
(* 238), against the same remote tree                                      *)

GaveUp(lg) == {i \in 1..Len(lg) : lg[i].op \in {"root_fail", "nodata", "failed"}}

Rerun ==
  /\ pc \in {"done", "crashed"}
  /\ run < MaxRuns
  /\ run' = run + 1
  /\ prev' = [ended |-> pc, dirs |-> dirs, files |-> files, clean |-> GaveUp(log) = {}]
  /\ pc' = "main_init"
  /\ ri' = 0
  /\ stack' = << >>
  /\ attempt' = 0
  /\ ret' = "-"
  /\ result' = << 0, 0 >>
  /\ total_downloaded' = 0
  /\ total_failed' = 0
  /\ trace' = << >>
  /\ wrote' = FALSE
  /\ log' = << >>
  /\ UNCHANGED << san, tree, dirs, files >>

----------------------------------------------------------------------------

Init ==
  /\ tree \in TreeNames
  /\ run = 1
  /\ pc = "main_init"
  /\ ri = 0
  /\ stack = << >>
  /\ attempt = 0
  /\ ret = "-"
  /\ result = << 0, 0 >>
  /\ dirs = {}
  /\ files = << >>
  /\ total_downloaded = 0
  /\ total_failed = 0
  /\ trace = << >>
  /\ wrote = FALSE
  /\ log = << >>
  /\ prev = [ended |-> "none", dirs |-> {}, files |-> << >>, clean |-> FALSE]
  /\ san = [applied |-> FALSE, name |-> << >>, sanitized |-> << >>]

Next ==
  \/ MainStart
  \/ MainNextRoot
  \/ MainRootFailed
  \/ MainRootFetched
  \/ MainAccumulate
  \/ MainSummary
  \/ GfdRequestOk
  \/ GfdRequestFail
  \/ GfdExcept
  \/ PfFetched
  \/ PfFileNoPath
  \/ PfFileExists
  \/ PfFileDownload
  \/ PfDownloaded
  \/ PfFilesEnd
  \/ PfSubfolderNoId
  \/ PfSubfolder
  \/ PfSubfolderRaises
  \/ PfReturn
  \/ PfAccumulate
  \/ DlRequestOk
  \/ DlRequestFail
  \/ DlStreamOk
  \/ DlStreamFail
  \/ DlExcept
  \/ Rerun

Spec == Init /\ [][Next]_vars

----------------------------------------------------------------------------
(* Properties                                                              *)

LastEvent == log[Len(log)]

(* C1: whenever download_file returns False, also after an attempt that   *)
(* wrote part of the body, nothing exists at the destination path.        *)
C1_NoFileAfterFailure ==
  (pc = "dl_done" /\ ret = "False") => ~ Exists(save_path)

(* download_file returned False and one of its attempts had written part  *)
(* of the body *)
C1_Witness == pc = "dl_done" /\ ret = "False" /\ wrote

(* C2: a folder fetch or a file download whose every attempt fails has    *)
(* issued exactly MAX_RETRIES requests when it reports None / False.      *)
C2_ExactlyMaxRetries ==
  /\ (pc = "gfd_done" /\ ret = "None") => Count(trace, "request") = MAX_RETRIES
  /\ (pc = "dl_done" /\ ret = "False") => Count(trace, "request") = MAX_RETRIES

(* a download was given up in a run in which a folder fetch was given up  *)
(* too *)
C2_Witness ==
  /\ pc = "dl_done" /\ ret = "False" /\ Count(trace, "request") = MAX_RETRIES
  /\ Logged("nodata") # {}

----------------------------------------------------------------------------
(* The remote tree as the walk sees it                                     *)

ChildIdx(id) == {k \in 1..Len(FoldersOf(id)) : "id" \in DOMAIN FoldersOf(id)[k]}

ChildIds(id) == {FoldersOf(id)[k].id : k \in ChildIdx(id)}

RECURSIVE Beneath(_)
Beneath(id) == ChildIds(id) \cup UNION {Beneath(c) : c \in ChildIds(id)}

HasEvent(op, id, n) == \E i \in 1..Len(log) : log[i] = Event(op, id, n)

(* C3 as stated: whenever a run that follows a completed run ends, the    *)
(* file set is the one the first run left, no download was issued and no  *)
(* failure is reported.                                                    *)
C3_Original ==
  (pc = "done" /\ prev.ended = "done") =>
     /\ files = prev.files
     /\ Logged("download") = {}
     /\ total_failed = 0

(* C3, amended: in a run that follows a completed run in which no folder  *)
(* fetch and no file download was given up, the local tree stays what     *)
(* that run left, no download is issued and no failure is counted.        *)
C3_IdempotentAfterCleanRun ==
  (prev.ended = "done" /\ prev.clean) =>
     /\ files = prev.files
     /\ (pc # "main_init" => dirs = prev.dirs)
     /\ Logged("download") = {}
     /\ Logged("failed") = {}
     /\ total_failed = 0

(* the second run ended after a clean first run, and it skipped files *)
C3_Witness ==
  /\ run = 2 /\ pc = "done" /\ prev.ended = "done" /\ prev.clean
  /\ Logged("exists") # {}
  /\ total_downloaded > 0

(* C4: a folder whose fetch is given up yields (0, 0), nothing of it or   *)
(* beneath it is requested, and every subfolder entry of a folder whose   *)
(* data arrived is still walked to its end.                                *)
C4_FailedFetchContained ==
  /\ (pc = "pf_done" /\ log # << >> /\ LastEvent.op = "nodata") => result = << 0, 0 >>
  /\ \A i \in Logged("nodata") : \A j \in 1..Len(log) :
        /\ log[j].id = log[i].id => log[j].op \in {"nodata", "mkdir", "root_ok"}
        /\ log[j].id \notin Beneath(log[i].id)
  /\ pc = "done" =>
        \A i \in Logged("data") : \A k \in ChildIdx(log[i].id) :
           LET c == FoldersOf(log[i].id)[k].id
           IN /\ HasEvent("mkdir", c, k)
              /\ HasEvent("nodata", c, 0) \/ HasEvent("return", c, 0)

(* the run ended; the fetch of one subfolder was given up and a later     *)
(* sibling was fetched and walked *)
C4_Witness ==
  /\ pc = "done"
  /\ \E i \in Logged("nodata"), j \in Logged("data") :
        /\ i < j
        /\ \E id \in DOMAIN remote : {log[i].id, log[j].id} \subseteq ChildIds(id)
        /\ HasEvent("return", log[j].id, 0)

(* C5: every file entry, subfolder entry and root is handled by the end   *)
(* of the run whatever downloads were given up ...                         *)
C5_AllProcessed ==
  pc = "done" =>
     /\ \A k \in 1..Len(ROOT_FOLDER_IDS) :
           HasEvent("root_ok", ROOT_FOLDER_IDS[k], 0) \/ HasEvent("root_fail", ROOT_FOLDER_IDS[k], 0)
     /\ \A i \in Logged("data") :
           /\ \A f \in 1..Len(FilesOf(log[i].id)) :
                 \E op \in {"nopath", "exists", "saved", "failed"} : HasEvent(op, log[i].id, f)
           /\ \A k \in 1..Len(FoldersOf(log[i].id)) :
                 IF k \in ChildIdx(log[i].id)
                 THEN HasEvent("mkdir", FoldersOf(log[i].id)[k].id, k)
                 ELSE HasEvent("noid", log[i].id, k)

(* ... and the step that takes a False from download_file adds one to     *)
(* failed, nothing to downloaded, and goes on to the next file entry of   *)
(* the same call.                                                          *)
C5_CountsOnce ==
  (pc = "dl_done" /\ ret = "False") =>
     /\ pc' = "pf_files"
     /\ Len(stack') = Len(stack)
     /\ \A d \in 1..(Len(stack) - 1) : stack'[d] = stack[d]
     /\ Top'.folder_id = Top.folder_id
     /\ Top'.fi = Top.fi + 1
     /\ Top'.failed = Top.failed + 1
     /\ Top'.downloaded = Top.downloaded
     /\ total_failed' = total_failed /\ total_downloaded' = total_downloaded

(* C5: a download given up counts one failure and never ends the walk.    *)
C5_FailureContained == []C5_AllProcessed /\ [][C5_CountsOnce]_vars

(* the run ended; after a download of a folder was given up, a later file *)
(* entry of that folder was saved and a subfolder was entered *)
C5_Witness ==
  /\ pc = "done"
  /\ \E i \in Logged("failed"), j \in Logged("saved"), m \in Logged("mkdir") :
        i < j /\ j < m /\ log[j].id = log[i].id

(* C6: the step taken at a file entry whose local path exists issues no   *)
(* request, leaves the file system as it is, counts the entry once as     *)
(* downloaded and moves to the next entry.                                 *)
C6_SkipStep ==
  (AtFile /\ file_path # << >> /\ Exists(save_path)) =>
     /\ files' = files
     /\ dirs' = dirs
     /\ pc' = "pf_files"
     /\ trace' = trace
     /\ Logged("download")' = Logged("download")
     /\ stack' = SetTop([Top EXCEPT !.fi = @ + 1, !.downloaded = @ + 1])

C6_SkipExisting == [][C6_SkipStep]_vars

(* a file entry was just skipped because a complete file of an earlier    *)
(* run is at its path *)
C6_Witness ==
  /\ run = 2 /\ pc = "pf_files" /\ log # << >> /\ LastEvent.op = "exists"
  /\ Top.fi = LastEvent.n + 1
  /\ Top.downloaded > 0
  /\ Complete(save_path_of(Top.current_path, FilesOf(Top.folder_id)[LastEvent.n]))

----------------------------------------------------------------------------
(* The local tree the remote tree maps to                                  *)

FolderDir(path, entry) ==
  Append(path, sanitize_filename(IF "name" \in DOMAIN entry THEN entry.name
                                 ELSE S_folder_ \o IntToStr(entry.id)))

RootDir(id) ==
  Append(OUTPUT_DIR, sanitize_filename(IF "name" \in DOMAIN remote[id] THEN remote[id].name
                                       ELSE S_resources_ \o IntToStr(id)))

FallbackRootDir(id) == Append(OUTPUT_DIR, sanitize_filename(S_resources_ \o IntToStr(id)))

(* the pairs << folder id, local directory >> of a subtree *)
RECURSIVE FoldersUnder(_, _)
FoldersUnder(id, path) ==
  { << id, path >> } \cup
  UNION { FoldersUnder(FoldersOf(id)[k].id, FolderDir(path, FoldersOf(id)[k])) : k \in ChildIdx(id) }

Mirror == UNION { FoldersUnder(ROOT_FOLDER_IDS[k], RootDir(ROOT_FOLDER_IDS[k])) :
                  k \in 1..Len(ROOT_FOLDER_IDS) }

(* the file entries << folder id, local directory, index >> *)
FileSlots == UNION { { << m[1], m[2], f >> : f \in 1..Len(FilesOf(m[1])) } : m \in Mirror }

SlotEntry(sl) == FilesOf(sl[1])[sl[3]]

LocalFile(sl) == Append(sl[2], sanitize_filename(file_name_of(SlotEntry(sl))))

PathSlots == { sl \in FileSlots : file_path_of(SlotEntry(sl)) # << >> }

RunGaveUpNothing == pc = "done" /\ GaveUp(log) = {}

(* C7 as stated: after a run in which nothing was given up every folder   *)
(* has its directory, every file entry its file, and distinct folders and *)
(* distinct file entries have distinct local paths.                        *)
C7_Original ==
  RunGaveUpNothing =>
     /\ \A m \in Mirror : m[2] \in dirs
     /\ \A m1, m2 \in Mirror : m1[1] # m2[1] => m1[2] # m2[2]
     /\ \A sl \in FileSlots : LocalFile(sl) \in DOMAIN files
     /\ \A s1, s2 \in FileSlots : s1 # s2 => LocalFile(s1) # LocalFile(s2)

(* C7, amended: after a run in which nothing was given up the directories *)
(* are exactly the output root and the directories of the reachable       *)
(* folders, every file entry with a path has its local path present, as a *)
(* complete file unless a directory has that path, and every local file   *)
(* is the complete body of an entry mapped to it.                          *)
C7_MirrorUpToCollisions ==
  RunGaveUpNothing =>
     /\ dirs = {OUTPUT_DIR} \cup { m[2] : m \in Mirror }
     /\ \A sl \in PathSlots : LocalFile(sl) \in dirs \/ Complete(LocalFile(sl))
     /\ \A p \in DOMAIN files :
           /\ Complete(p)
           /\ \E sl \in PathSlots :
                 LocalFile(sl) = p /\ files[p].src = file_path_of(SlotEntry(sl))

(* a run ended with nothing given up in a tree where two file entries     *)
(* share a local path and a file entry has the path of a directory *)
C7_Witness ==
  /\ RunGaveUpNothing
  /\ Logged("saved") # {}
  /\ \E s1, s2 \in PathSlots : s1 # s2 /\ LocalFile(s1) = LocalFile(s2)
  /\ \E sl \in PathSlots : LocalFile(sl) \in dirs

(* C8: a root whose fetch is given up has no other event, and nothing     *)
(* beneath it has any; a run that reaches the summary has handled every   *)
(* root ...                                                                *)
C8_NeverWalked ==
  /\ \A i \in Logged("root_fail") : \A j \in 1..Len(log) :
        /\ log[j].id = log[i].id => log[j].op = "root_fail"
        /\ log[j].id \notin Beneath(log[i].id)
  /\ pc = "done" =>
        \A k \in 1..Len(ROOT_FOLDER_IDS) :
           HasEvent("root_ok", ROOT_FOLDER_IDS[k], 0) \/ HasEvent("root_fail", ROOT_FOLDER_IDS[k], 0)

(* ... and the step that takes None for a root changes neither total,     *)
(* starts no walk and goes to the next root.                               *)
C8_AddsNothing ==
  (pc = "gfd_done" /\ stack = << >> /\ ret = "None") =>
     /\ total_downloaded' = total_downloaded
     /\ total_failed' = total_failed
     /\ stack' = << >>
     /\ files' = files
     /\ pc' = "main_loop"
     /\ ri' = ri + 1

(* C8: a root whose fetch fails is skipped and the later roots are not.   *)
C8_RootSkipped == []C8_NeverWalked /\ [][C8_AddsNothing]_vars

(* the summary was reached; the first root was skipped, the second walked *)
C8_Witness ==
  /\ pc = "done"
  /\ HasEvent("root_fail", ROOT_FOLDER_IDS[1], 0)
  /\ HasEvent("return", ROOT_FOLDER_IDS[2], 0)
  /\ total_downloaded > 0

(* C9 as stated: at the summary every root whose fetch succeeded has its  *)
(* directory of the sanitized name, and every root whose fetch failed has *)
(* a directory of the fallback name.                                       *)
C9_Original ==
  pc = "done" =>
     \A k \in 1..Len(ROOT_FOLDER_IDS) :
        /\ HasEvent("root_ok", ROOT_FOLDER_IDS[k], 0) => RootDir(ROOT_FOLDER_IDS[k]) \in dirs
        /\ HasEvent("root_fail", ROOT_FOLDER_IDS[k], 0) =>
              FallbackRootDir(ROOT_FOLDER_IDS[k]) \in dirs

C9_DirOfFetchedRoot ==
  \A k \in 1..Len(ROOT_FOLDER_IDS) :
     HasEvent("root_ok", ROOT_FOLDER_IDS[k], 0) => RootDir(ROOT_FOLDER_IDS[k]) \in dirs

C9_NoDirOnFailure ==
  (pc = "gfd_done" /\ stack = << >> /\ ret = "None") => dirs' = dirs

(* C9, amended: a root whose fetch succeeded has the directory of its     *)
(* sanitized name, or of resources_<id> when the data has no name; the    *)
(* step that takes None for a root creates no directory.                   *)
C9_RootDirOnlyWhenFetched == []C9_DirOfFetchedRoot /\ [][C9_NoDirOnFailure]_vars

(* the summary was reached; the first root was skipped and has no         *)
(* fallback directory, the second has no name and was walked *)
C9_Witness ==
  /\ pc = "done"
  /\ HasEvent("root_fail", ROOT_FOLDER_IDS[1], 0)
  /\ FallbackRootDir(ROOT_FOLDER_IDS[1]) \notin dirs
  /\ HasEvent("root_ok", ROOT_FOLDER_IDS[2], 0)
  /\ "name" \notin DOMAIN remote[ROOT_FOLDER_IDS[2]]

(* C10 as stated: the local name of every file entry the walker handles   *)
(* is non-empty, at most 200 characters long and ends in .pdf (in any     *)
(* letter case).                                                           *)
C10_Original ==
  (AtFile /\ file_path # << >>) =>
     /\ safe_name_of(file_info) # << >>
     /\ Len(safe_name_of(file_info)) <= MaxNameLen
     /\ EndsWith(Lower(safe_name_of(file_info)), PDF)

----------------------------------------------------------------------------
(* sanitize_filename on its own: the argument is any string made of a     *)
(* free start, at most one reserved character, nothing or a run of        *)
(* letters that brings the length to the limit, and a free end.           *)

AffixChars == {"a", " ", "."}

(* the characters a file name must not hold *)
Reserved == {"<", ">", ":", "\"", "/", "\\", "|", "?", "*"}

RECURSIVE StringsUpTo(_)
StringsUpTo(n) ==
  IF n = 0 THEN { << >> }
  ELSE StringsUpTo(n - 1) \cup
       { Append(x, c) : x \in { y \in StringsUpTo(n - 1) : Len(y) = n - 1 }, c \in AffixChars }

Filler == [i \in 1..(MaxNameLen - MaxAffix) |-> "a"]

SanNames ==
  { h \o r \o m \o t : h \in StringsUpTo(MaxAffix),
                       r \in { << >> } \cup { << c >> : c \in Reserved },
                       m \in { << >>, Filler },
                       t \in StringsUpTo(MaxAffix) }

SanInit ==
  /\ tree = "defaults"
  /\ run = 1
  /\ pc = "sanitize"
  /\ ri = 0
  /\ stack = << >>
  /\ attempt = 0
  /\ ret = "-"
  /\ result = << 0, 0 >>
  /\ dirs = {}
  /\ files = << >>
  /\ total_downloaded = 0
  /\ total_failed = 0
  /\ trace = << >>
  /\ wrote = FALSE
  /\ log = << >>
  /\ prev = [ended |-> "none", dirs |-> {}, files |-> << >>, clean |-> FALSE]
  /\ san \in { [applied |-> FALSE, name |-> x, sanitized |-> << >>] : x \in SanNames }

(* the call sanitize_filename(name) *)
SanApply ==
  /\ pc = "sanitize"
  /\ ~ san.applied
  /\ san' = [san EXCEPT !.applied = TRUE, !.sanitized = sanitize_filename(san.name)]
  /\ UNCHANGED << tree, run, pc, ri, stack, attempt, ret, result, dirs, files,
                  total_downloaded, total_failed, trace, wrote, log, prev >>

SanSpec == SanInit /\ [][SanApply]_vars

StripChars == {".", " "}

(* C11: the result of sanitize_filename is never empty, is at most 200    *)
(* characters long and holds no reserved character; an argument that      *)
(* needs neither stripping nor cutting comes back with each reserved      *)
(* character replaced by one underscore and nothing else changed, and an  *)
(* argument of dots and spaces alone comes back as unnamed.               *)
C11_SanitizedIsSafe ==
  san.applied =>
     /\ san.sanitized # << >>
     /\ Len(san.sanitized) <= MaxNameLen
     /\ \A i \in 1..Len(san.sanitized) :
           san.sanitized[i] \notin Reserved
     /\ (/\ san.name # << >>
         /\ Len(san.name) <= MaxNameLen
         /\ san.name[1] \notin StripChars
         /\ san.name[Len(san.name)] \notin StripChars)
        => /\ Len(san.sanitized) = Len(san.name)
           /\ \A i \in 1..Len(san.name) :
                 san.sanitized[i] =
                    IF san.name[i] \in Reserved
                    THEN "_" ELSE san.name[i]
     /\ (\A i \in 1..Len(san.name) : san.name[i] \in StripChars)
        => san.sanitized = <<"u","n","n","a","m","e","d">>

(* sanitize_filename returned for an argument longer than the limit that  *)
(* holds a backslash *)
C11_Witness ==
  /\ san.applied
  /\ Len(san.name) > MaxNameLen
  /\ \E i \in 1..Len(san.name) : san.name[i] = "\\"
  /\ \E i \in 1..Len(san.sanitized) : san.sanitized[i] = "_"

(* C12 as stated: the result of sanitize_filename neither starts nor ends *)
(* with a space or a dot, whatever the length of the argument.            *)
C12_Original ==
  san.applied =>
     /\ san.sanitized[1] \notin StripChars
     /\ san.sanitized[Len(san.sanitized)] \notin StripChars

----------------------------------------------------------------------------
(* C13: in get_folder_data and in download_file requests and waits        *)
(* alternate, starting with a request: when an attempt is about to be     *)
(* issued, each earlier (failed) attempt was followed by exactly one      *)
(* wait; when None or False is reported, the last thing that happened is  *)
(* the request of the final attempt, with no wait after it.               *)
C13_WaitBetweenAttempts ==
  /\ \A i \in 1..Len(trace) :
        trace[i] = IF i % 2 = 1 THEN "request" ELSE "sleep"
  /\ pc \in {"gfd_try", "dl_try"} => Len(trace) = 2 * attempt
  /\ pc \in {"gfd_except", "dl_stream", "dl_except"} => Len(trace) = 2 * attempt + 1
  /\ ((pc = "gfd_done" /\ ret = "None") \/ (pc = "dl_done" /\ ret = "False"))
        => /\ Len(trace) = 2 * MAX_RETRIES - 1
           /\ trace[Len(trace)] = "request"

(* a folder fetch is given up after two waits, in a run in which a        *)
(* download was given up as well *)
C13_Witness ==
  /\ pc = "gfd_done" /\ ret = "None"
  /\ Count(trace, "sleep") = MAX_RETRIES - 1
  /\ Logged("failed") # {}

----------------------------------------------------------------------------
(* C14: when download_file has returned, it returned True exactly if the  *)
(* destination holds the complete body of the requested file; on True     *)
(* the request of the successful attempt is the last one issued, it is    *)
(* one of at most MAX_RETRIES, and while the call is still trying no      *)
(* complete file is at the destination.                                   *)
C14_TrueIffFullWrite ==
  /\ pc = "dl_done" =>
        /\ ret \in {"True", "False"}
        /\ ret = "True" <=> /\ save_path \in DOMAIN files
                            /\ files[save_path] = Body(file_path, NumChunks)
        /\ ret = "True" => /\ attempt < MAX_RETRIES
                           /\ Count(trace, "request") = attempt + 1
                           /\ trace[Len(trace)] = "request"
  /\ pc \in {"dl_try", "dl_stream", "dl_except"} =>
        /\ attempt < MAX_RETRIES
        /\ ~ Complete(save_path)

(* download_file returns True on its last attempt, after an earlier       *)
(* attempt had left part of the body on disk *)
C14_Witness ==
  /\ pc = "dl_done" /\ ret = "True"
  /\ attempt = MAX_RETRIES - 1
  /\ wrote

----------------------------------------------------------------------------
(* C15: whenever no call of download_file is in progress (between file    *)
(* entries, during the recursion, at the summary, and in a later run),    *)
(* every file of the local tree holds a complete body.                    *)
C15_OnlyCompleteFilesAtRest ==
  pc \notin {"dl_try", "dl_stream", "dl_except"} =>
     \A p \in DOMAIN files : Complete(p)

(* back in the file loop of a second run after a download that was given  *)
(* up, with files on disk that the first run had given up *)
C15_Witness ==
  /\ pc = "pf_files"
  /\ log # << >> /\ LastEvent.op = "failed"
  /\ run = 2
  /\ DOMAIN files \ DOMAIN prev.files # {}

----------------------------------------------------------------------------
(* sibling subfolders << parent, j, k >> whose names sanitize to the same *)
(* segment *)
Colliding ==
  { c \in UNION { { << id, j, k >> : j, k \in ChildIdx(id) } : id \in DOMAIN remote } :
       /\ c[2] < c[3]
       /\ FolderDir(<< >>, FoldersOf(c[1])[c[2]]) = FolderDir(<< >>, FoldersOf(c[1])[c[3]]) }

(* C16: every call of process_folder for a subfolder works in the         *)
(* directory named by the sanitized display name alone, which exists;     *)
(* so two siblings of the same sanitized name work in one directory. In   *)
(* a run that reached the summary the second of them was walked if the    *)
(* first was, its mkdir having met the existing directory, and every file *)
(* saved for either of them is in the shared directory.                   *)
C16_CollidingSiblingsMerge ==
  /\ \A i \in 2..Len(stack) :
        LET entry == FoldersOf(stack[i - 1].folder_id)[stack[i - 1].si]
        IN /\ stack[i].folder_id = entry.id
           /\ stack[i].current_path = FolderDir(stack[i - 1].current_path, entry)
           /\ stack[i].current_path \in dirs
  /\ \A c \in Colliding :
        LET first == FoldersOf(c[1])[c[2]]
            second == FoldersOf(c[1])[c[3]]
        IN /\ (pc = "done" /\ HasEvent("mkdir", first.id, c[2]))
                 => /\ HasEvent("mkdir", second.id, c[3])
                    /\ HasEvent("data", second.id, 0) \/ HasEvent("nodata", second.id, 0)
           /\ \A m \in Mirror : m[1] = c[1] =>
                 \A e \in {first, second} : \A n \in 1..Len(FilesOf(e.id)) :
                    HasEvent("saved", e.id, n) =>
                       Complete(Append(FolderDir(m[2], first),
                                       sanitize_filename(file_name_of(FilesOf(e.id)[n]))))

(* a run ended in which files were saved for both of two siblings of the  *)
(* same sanitized name *)
C16_Witness ==
  /\ pc = "done"
  /\ \E c \in Colliding :
        /\ \E n \in 1..Len(FilesOf(FoldersOf(c[1])[c[2]].id)) :
              HasEvent("saved", FoldersOf(c[1])[c[2]].id, n)
        /\ \E n \in 1..Len(FilesOf(FoldersOf(c[1])[c[3]].id)) :
              HasEvent("saved", FoldersOf(c[1])[c[3]].id, n)

----------------------------------------------------------------------------
(* The order of the events of a run                                       *)

FileOps == {"nopath", "exists", "download", "saved", "failed"}

(* a folder and everything beneath it *)
Inside(id) == {id} \cup Beneath(id)

(* the call of process_folder for folder id is over *)
IsEnd(e, id) == e = Event("nodata", id, 0) \/ e = Event("return", id, 0)

(* e is what the folder loop of parent did with its n-th subfolder entry *)
IsSub(e, parent) ==
  \/ e.op = "noid" /\ e.id = parent
  \/ e.op = "mkdir" /\ e.n \in ChildIdx(parent) /\ FoldersOf(parent)[e.n].id = e.id

RootIds == { ROOT_FOLDER_IDS[k] : k \in 1..Len(ROOT_FOLDER_IDS) }

(* the event at position j is in order with every earlier event *)
InOrder(j) ==
  LET e == log[j]
  IN /\ e.op = "mkdir" => \E parent \in DOMAIN remote : IsSub(e, parent)
     /\ (e.op \in {"data", "nodata"} /\ e.id \notin RootIds)
           => j > 1 /\ log[j - 1].op = "mkdir" /\ log[j - 1].id = e.id
     /\ \A i \in 1..(j - 1) :
          LET d == log[i]
          IN /\ (d.op \in FileOps /\ e.op \in FileOps /\ d.id = e.id)
                   => \/ d.n < e.n
                      \/ /\ d.n = e.n /\ i = j - 1
                         /\ d.op = "download" /\ e.op \in {"saved", "failed"}
             /\ e.op \in FileOps
                   => /\ ~ (d.op = "noid" /\ d.id = e.id)
                      /\ ~ (d.op = "mkdir" /\ d.id \in ChildIds(e.id))
             /\ \A parent \in DOMAIN remote :
                   (IsSub(d, parent) /\ IsSub(e, parent)) => d.n < e.n
             /\ (d.op = "mkdir" /\ e.id \notin Inside(d.id))
                   => \E k \in (i + 1)..(j - 1) : IsEnd(log[k], d.id)
             /\ IsEnd(d, d.id) => e.id \notin Inside(d.id)

(* C17: the events of a run are in depth-first order: the file entries of *)
(* a folder in the order of the listing, one at a time, and all before    *)
(* its first subfolder; the subfolders in the order of the listing; the   *)
(* directory of a subfolder made right before its metadata is fetched;    *)
(* nothing outside a subfolder's subtree happens between its mkdir and    *)
(* the end of its call, and nothing inside it afterwards. The log of a    *)
(* run only grows, so each event is compared with the earlier ones in the *)
(* state in which it is the last.                                         *)
C17_DepthFirstInOrder ==
  /\ log # << >> => InOrder(Len(log))
  /\ (pc \in {"gfd_try", "gfd_except", "gfd_done"} /\ Len(stack) >= 2)
        => /\ Top.current_path \in dirs
           /\ LastEvent = Event("mkdir", Top.folder_id, stack[Len(stack) - 1].si)

(* a run ended in which a file was saved two levels below a folder whose  *)
(* next subfolder was entered afterwards *)
C17_Witness ==
  /\ pc = "done"
  /\ \E i, k \in Logged("mkdir") : \E j \in Logged("saved") :
        /\ i < j /\ j < k
        /\ log[j].id \in Beneath(log[i].id)
        /\ log[k].id \notin Inside(log[i].id)
        /\ \E parent \in DOMAIN remote : IsSub(log[i], parent) /\ IsSub(log[k], parent)

----------------------------------------------------------------------------
(* Counting                                                               *)

(* the events of the run with an operation of ops in the folders of S *)
EventsIn(ops, S) == { i \in 1..Len(log) : log[i].op \in ops /\ log[i].id \in S }

(* the file entries << folder, index >> with a path in the folders of S   *)
(* whose metadata was fetched in this run                                 *)
EntriesIn(S) ==
  UNION { { << c, n >> : n \in { k \in 1..Len(FilesOf(c)) : file_path_of(FilesOf(c)[k]) # << >> } } :
          c \in { x \in S : HasEvent("data", x, 0) } }

(* the sum, over the roots up to the k-th whose fetch succeeded, of the   *)
(* events counted in the subtree of the root                               *)
RECURSIVE RootSum(_, _)
RootSum(ops, k) ==
  IF k = 0 THEN 0
  ELSE RootSum(ops, k - 1) +
       (IF HasEvent("root_ok", ROOT_FOLDER_IDS[k], 0)
        THEN Cardinality(EventsIn(ops, Inside(ROOT_FOLDER_IDS[k]))) ELSE 0)

(* C18: when a call of process_folder has returned, the pair it returned  *)
(* is (entries skipped as existing or saved, entries given up) of its     *)
(* subtree, the two add up to the number of file entries with a path in   *)
(* the fetched folders of the subtree, and no entry was counted twice;    *)
(* between roots and at the summary the totals of main are the sums of    *)
(* these counts over the roots fetched so far.                            *)
C18_CountersAddUp ==
  /\ pc = "pf_done" =>
        LET S == Inside(LastEvent.id)
        IN /\ IsEnd(LastEvent, LastEvent.id)
           /\ result[1] = Cardinality(EventsIn({"exists", "saved"}, S))
           /\ result[2] = Cardinality(EventsIn({"failed"}, S))
           /\ result[1] + result[2] = Cardinality(EntriesIn(S))
           /\ { << log[i].id, log[i].n >> : i \in EventsIn({"exists", "saved", "failed"}, S) }
                 = EntriesIn(S)
  /\ pc \in {"main_loop", "done"} =>
        /\ total_downloaded = RootSum({"exists", "saved"}, Len(ROOT_FOLDER_IDS))
        /\ total_failed = RootSum({"failed"}, Len(ROOT_FOLDER_IDS))
        /\ total_downloaded + total_failed = Cardinality(EntriesIn(DOMAIN remote))

(* the summary of a run in which entries were saved, skipped and given    *)
(* up, a subfolder could not be fetched and an entry had no path *)
C18_Witness ==
  /\ pc = "done"
  /\ total_downloaded > 1 /\ total_failed > 0
  /\ Logged("exists") # {} /\ Logged("saved") # {}
  /\ Logged("nodata") # {} /\ Logged("nopath") # {}

----------------------------------------------------------------------------
(* C19 as stated: whatever the tree and whatever fails, the run goes on   *)
(* to the summary and completes normally; it never stops on an exception  *)
(* that nothing catches.                                                  *)
C19_Original == pc # "crashed"

----------------------------------------------------------------------------
(* no step touches a complete file; download_file is entered only on a    *)
(* path at which nothing exists; whatever a step changes in the local     *)
(* files is the destination of the call of download_file in progress      *)
C20_Step ==
  /\ \A p \in DOMAIN files :
        Complete(p) => p \in DOMAIN files' /\ files'[p] = files[p]
  /\ (pc = "pf_files" /\ pc' = "dl_try")
        => save_path \notin DOMAIN files /\ save_path \notin dirs
  /\ \A p \in DOMAIN files \cup DOMAIN files' :
        (p \notin DOMAIN files \/ p \notin DOMAIN files' \/ files'[p] # files[p])
           => pc \in {"dl_try", "dl_stream", "dl_except"} /\ p = save_path

(* C20: once a complete file exists at a local path no later step, of     *)
(* this run or of a later one, writes to it, truncates it or deletes it:  *)
(* download_file is called only on a path that did not exist, and only    *)
(* the file of the call in progress is ever opened or unlinked.           *)
C20_CompleteFilesUntouched == [][C20_Step]_vars

(* a second run is writing a file while a complete file of the first run  *)
(* is still in place *)
C20_Witness ==
  /\ run = 2
  /\ pc = "dl_stream"
  /\ \E p \in DOMAIN prev.files :
        p # save_path /\ p \in DOMAIN files /\ files[p] = prev.files[p] /\ Complete(p)

====
